---- MODULE Spec2Model ----
(***************************************************************************)
(* Model of the byte-and-bit stream reader of the Kaitai Struct Rust       *)
(* runtime (src/src/lib.rs): BytesReader, its ReaderState and the KStream  *)
(* primitives that act on them.                                            *)
(*                                                                         *)
(* A u64 is modelled as its 64 binary digits, so that shifts, |, & and the  *)
(* 64-bit width are those of the code.  Every call is                      *)
(* one action; it leaves its arguments, its result and the state it        *)
(* started from in `last`, which the caller then consumes (Observe).       *)
(*                                                                         *)
(* The parsed tree (SharedType, OptRc, KStruct::read_into) is modelled by  *)
(* the nodes that were allocated, each with the number of owning handles   *)
(* (Rc) to it, and by back-reference cells that hold a Weak to a node.     *)
(***************************************************************************)
EXTENDS Integers, Sequences, FiniteSets, TLC

VARIABLES src,      \* the bytes of the shared source (fixed after construction)
          cur,      \* the native cursor of the shared source (io::Cursor / File)
          readers,  \* readers[r]: the ReaderState of reader r (r = 1 is the original)
          last,     \* the call that has just returned, until the caller consumes it
          nodes,    \* nodes[k]: the k-th allocated node (Rc<T>): its type, its handles
          cells,    \* cells[c]: a back-reference cell (SharedType) the caller holds
          frame,    \* the read_into / read_into_with_init call in progress
          ret       \* the result of the back-reference operation that has returned

vars == <<src, cur, readers, last, nodes, cells, frame, ret>>

\* the variables of the parsed tree
tree == <<nodes, cells, frame, ret>>

(***************************************************************************)
(* Bounds of the model.                                                    *)
(***************************************************************************)
SrcLen == 3        \* bytes of the source of Spec
FewBits == 9       \* Spec reads 0..FewBits bits, and MaxBits and MaxBits + 1
CloneLen == 2      \* bytes of the source of SpecClone
MaxReaders == 2    \* readers (the original and its clones) of SpecClone
TermLen == 3       \* bytes of the sources of SpecTerm
MaxNodes == 2      \* nodes allocated in SpecTree, SpecCell and SpecRoot
MaxCells == 2      \* back-reference cells the caller holds
MaxStrong == 2     \* owning handles to one node the caller holds

\* read_bits_int_*: "if n > 64"
MaxBits == 64

Min(a, b) == IF a <= b THEN a ELSE b

(***************************************************************************)
(* u64 arithmetic.  A u64 is its 64 binary digits, most significant first: *)
(* x[1] is bit 63 and x[64] is bit 0.                                      *)
(***************************************************************************)
Pow2 == <<1, 2, 4, 8, 16, 32, 64, 128, 256>>

U64Zero == [i \in 1..64 |-> 0]

U64Max == [i \in 1..64 |-> 1]

\* k zero digits
Zeros(k) == SubSeq(U64Zero, 1, k)

\* the eight binary digits of a u8, most significant first
ByteBits == [b \in 0..255 |-> [j \in 1..8 |-> (b \div Pow2[9 - j]) % 2]]

\* `b as u64`
U64FromByte(b) == Zeros(56) \o ByteBits[b]

\* x << s on a u64, for 0 <= s (every bit leaves the word when s >= 64)
Shl(x, s) == IF s >= 64 THEN U64Zero ELSE SubSeq(x, s + 1, 64) \o Zeros(s)

\* x >> s on a u64, for 0 <= s
Shr(x, s) == IF s >= 64 THEN U64Zero ELSE Zeros(s) \o SubSeq(x, 1, 64 - s)

\* x | y
Or64(x, y) == [i \in 1..64 |-> IF x[i] = 1 THEN 1 ELSE y[i]]

\* x & y
And64(x, y) == [i \in 1..64 |-> IF x[i] = 1 THEN y[i] ELSE 0]

\* x - 1 (wrapping)
Dec64(x) ==
    IF x = U64Zero THEN U64Max
    ELSE LET j == CHOOSE k \in 1..64 : x[k] = 1 /\ \A m \in (k + 1)..64 : x[m] = 0
         IN  SubSeq(x, 1, j - 1) \o <<0>> \o SubSeq(U64Max, 1, 64 - j)

\* (1u64 << k) - 1, for 0 <= k < 64
MaskTab == [k \in 0..63 |-> Dec64(Shl(U64FromByte(1), k))]

Mask(k) == MaskTab[k]

\* bit i (0 = least significant) of the u64 x
Bit(x, i) == x[64 - i]

(***************************************************************************)
(* Errors and results.                                                     *)
(***************************************************************************)
NoErr == [kind |-> "none", n |-> 0]
Incomplete(k) == [kind |-> "Incomplete", n |-> k]
ReadBitsTooLarge(k) == [kind |-> "ReadBitsTooLarge", n |-> k]
EncounteredEOF == [kind |-> "EncounteredEOF", n |-> 0]
MissingParent == [kind |-> "MissingParent", n |-> 0]

\* a panic of the thread (no KResult is returned): an index out of the bounds
\* of a Vec, unwrap() on a None, panic!
Panic(k) == [kind |-> "panic", n |-> k]

\* The outcome of one call: Ok(..) or Err(err), and the reader state and the
\* native cursor it leaves.
Ok(st, c, bytes, val) ==
    [ok |-> TRUE, err |-> NoErr, bytes |-> bytes, val |-> val, st |-> st, cur |-> c]
Err(st, c, e) ==
    [ok |-> FALSE, err |-> e, bytes |-> <<>>, val |-> U64Zero, st |-> st, cur |-> c]

\* ReaderState::default()
ReaderState == [pos |-> 0, bits |-> U64Zero, bits_left |-> 0]

size == Len(src)

(***************************************************************************)
(* BytesReader: sync_pos, read_bytes, read_bytes_full, clone.              *)
(***************************************************************************)
\* the native cursor after sync_pos
sync_pos_skipped(st, c) == c

sync_pos(st, c) == IF st.pos # c THEN st.pos ELSE c

\* Read::read of io::Cursor into a zeroed buffer of len bytes: the bytes
\* copied, as many as remain at the native cursor and at most len
raw_read(c, len) ==
    LET readed == IF c >= size THEN 0 ELSE Min(len, size - c)
    IN  [readed |-> readed,
         buf |-> [i \in 1..len |-> IF i <= readed THEN src[c + i] ELSE 0]]

\* "handle read beyond end of file": len + self.pos() > self.size()
beyond_end_inclusive(st, len) == len + st.pos >= size

beyond_end(st, len) == len + st.pos > size

read_bytes(st, c, len) ==
    IF beyond_end(st, len)
    THEN Err(st, c, Incomplete(len + st.pos - size))
    ELSE LET c1 == sync_pos(st, c)
             rr == raw_read(c1, len)
         IN  Ok([st EXCEPT !.pos = @ + rr.readed], c1 + rr.readed, rr.buf, U64Zero)

read_bytes_full(st, c) ==
    LET c1 == sync_pos(st, c)
        readed == IF c1 >= size THEN 0 ELSE size - c1
    IN  Ok([st EXCEPT !.pos = @ + readed], c1 + readed,
           [i \in 1..readed |-> src[c1 + i]], U64Zero)

\* KStream::clone is Clone::clone of the derived Clone: the ReaderState is
\* copied field by field, the source is shared
clone_default(st) == ReaderState

clone(st) == [pos |-> st.pos, bits |-> st.bits, bits_left |-> st.bits_left]

(***************************************************************************)
(* KStream: is_eof, seek, align_to_byte.                                   *)
(***************************************************************************)
is_eof(st) == IF st.bits_left > 0 THEN FALSE ELSE st.pos = size

seek_needed_from_size(st, c, position) ==
    IF position > size
    THEN Err(st, c, Incomplete(position - size))
    ELSE Ok([st EXCEPT !.pos = position], c, <<>>, U64Zero)

seek_aligning(st, c, position) ==
    IF position > size
    THEN Err(st, c, Incomplete(position - st.pos))
    ELSE Ok([pos |-> position, bits |-> U64Zero, bits_left |-> 0], c, <<>>, U64Zero)

seek_unchecked(st, c, position) ==
    Ok([st EXCEPT !.pos = position], c, <<>>, U64Zero)

seek(st, c, position) ==
    IF position > size
    THEN Err(st, c, Incomplete(position - st.pos))
    ELSE Ok([st EXCEPT !.pos = position], c, <<>>, U64Zero)

align_to_byte(st, c) ==
    Ok([st EXCEPT !.bits = U64Zero, !.bits_left = 0], c, <<>>, U64Zero)

(***************************************************************************)
(* KStream: read_bits_int_be, read_bits_int_le.                            *)
(***************************************************************************)
\* res << 8 | (b as u64): the shift leaves the low eight bits zero and the |
\* writes b into them
ShlOrByte(res, b) == SubSeq(res, 9, 64) \o ByteBits[b]

\* for b in buf { res = res << 8 | (b as u64) }
RECURSIVE FoldBE(_, _, _)
FoldBE(res, buf, i) ==
    IF i > Len(buf) THEN res
    ELSE FoldBE(ShlOrByte(res, buf[i]), buf, i + 1)

\* res | (b as u64) << (i * 8), for a res that has no bit at i * 8 or above
\* (it holds the i bytes written so far): the | writes b into byte i
OrShlByte(res, b, i) ==
    Zeros(56 - 8 * i) \o ByteBits[b] \o SubSeq(res, 65 - 8 * i, 64)

\* for i in 0..bytes_needed { res |= (buf[i] as u64) << (i * 8) }
RECURSIVE FoldLE(_, _, _, _)
FoldLE(res, buf, i, bytes_needed) ==
    IF i >= bytes_needed THEN res
    ELSE FoldLE(OrShlByte(res, buf[i + 1], i), buf, i + 1, bytes_needed)

\* (-bits_needed) & 7 on an i64
And7(bits_needed) == bits_needed % 8

NegAnd7(bits_needed) == (-bits_needed) % 8

\* if n > 64 { return Err(KError::ReadBitsTooLarge { requested: n }) }
too_large_above_65(n) == n > MaxBits + 1

too_large(n) == n > MaxBits

\* read_bits_int_be: inner.bits &= mask, with mask = (1u64 << inner.bits_left) - 1
keep_residual_unmasked(bits, bits_left) == bits

keep_residual(bits, bits_left) == And64(bits, Mask(bits_left))

\* read_bits_int_le: if n < 64 { res &= (1u64 << n) - 1 }
le_result_unmasked(res, n) == res

le_result(res, n) == IF n < 64 THEN And64(res, Mask(n)) ELSE res

read_bits_int_be(st, c, n) ==
    IF too_large(n) THEN Err(st, c, ReadBitsTooLarge(n))
    ELSE
    LET bits_needed == n - st.bits_left
        st1 == [st EXCEPT !.bits_left = NegAnd7(bits_needed)]
    IN  IF bits_needed > 0
        THEN LET bytes_needed == ((bits_needed - 1) \div 8) + 1
                 rb == read_bytes(st1, c, bytes_needed)
             IN  IF ~rb.ok THEN Err(rb.st, rb.cur, rb.err)
                 ELSE LET res0 == FoldBE(U64Zero, rb.bytes, 1)
                          inner == rb.st
                          new_bits == res0
                          res1 == Shr(res0, inner.bits_left)
                          res == IF bits_needed < 64
                                 THEN Or64(res1, Shl(inner.bits, bits_needed))
                                 ELSE res1
                      IN  Ok([inner EXCEPT
                                 !.bits = keep_residual(new_bits, inner.bits_left)],
                             rb.cur, <<>>, res)
        ELSE LET res == Shr(st1.bits, -bits_needed)
             IN  Ok([st1 EXCEPT !.bits = keep_residual(@, st1.bits_left)],
                    c, <<>>, res)

read_bits_int_le(st, c, n) ==
    IF too_large(n) THEN Err(st, c, ReadBitsTooLarge(n))
    ELSE
    LET bits_needed == n - st.bits_left
    IN  IF bits_needed > 0
        THEN LET bytes_needed == ((bits_needed - 1) \div 8) + 1
                 rb == read_bytes(st, c, bytes_needed)
             IN  IF ~rb.ok THEN Err(rb.st, rb.cur, rb.err)
                 ELSE LET res0 == FoldLE(U64Zero, rb.bytes, 0, bytes_needed)
                          inner == rb.st
                          new_bits == IF bits_needed < 64 THEN Shr(res0, bits_needed)
                                      ELSE U64Zero
                          res1 == Or64(Shl(res0, inner.bits_left), inner.bits)
                          res == le_result(res1, n)
                      IN  Ok([inner EXCEPT !.bits = new_bits,
                                           !.bits_left = NegAnd7(bits_needed)],
                             rb.cur, <<>>, res)
        ELSE LET res1 == st.bits
                 res == le_result(res1, n)
             IN  Ok([st EXCEPT !.bits = Shr(@, n), !.bits_left = NegAnd7(bits_needed)],
                    c, <<>>, res)

\* the amounts of the shifts of 64-bit values that read_bits_int_be(n) makes,
\* n <= 64, when every statement of it runs
be_shifts(st, n) ==
    LET bits_needed == n - st.bits_left
        bits_left == NegAnd7(bits_needed)
    IN  (IF bits_needed > 0
         THEN {8, bits_left} \cup (IF bits_needed < 64 THEN {bits_needed} ELSE {})
         ELSE {-bits_needed})
            \cup {bits_left}

\* the amounts of the shifts of 64-bit values that read_bits_int_le(n) makes,
\* n <= 64, when every statement of it runs
le_shifts(st, n) ==
    LET bits_needed == n - st.bits_left
        bytes_needed == ((bits_needed - 1) \div 8) + 1
    IN  (IF bits_needed > 0
         THEN {i * 8 : i \in 0..(bytes_needed - 1)}
                 \cup (IF bits_needed < 64 THEN {bits_needed} ELSE {})
                 \cup {st.bits_left}
         ELSE {n})
            \cup (IF n < 64 THEN {n} ELSE {})

(***************************************************************************)
(* KStream: the fixed-width numeric reads read_u1 .. read_f8le.  Each is   *)
(* read_bytes(width) and a decoding of the bytes in one byte order (the    *)
(* signed and the floating-point reads reinterpret the same bytes).        *)
(***************************************************************************)
Widths == {1, 2, 4, 8}

read_fixed(st, c, width, big_endian) ==
    LET rb == read_bytes(st, c, width)
    IN  IF ~rb.ok THEN rb
        ELSE Ok(rb.st, rb.cur, rb.bytes,
                IF big_endian THEN FoldBE(U64Zero, rb.bytes, 1)
                ELSE FoldLE(U64Zero, rb.bytes, 0, width))

(***************************************************************************)
(* KStream: read_bytes_term.                                               *)
(***************************************************************************)
\* "undo last readed byte": self.get_state_mut().pos -= 1
undo_last_skipped(st) == st

undo_last(st) == [st EXCEPT !.pos = @ - 1]

\* if self.pos() == self.size(): the loop ran to the end of the source
at_end_never(st) == FALSE

at_end(st) == st.pos = size

\* while self.pos() < self.size() { ... }: the bytes collected, the state and
\* the native cursor when the loop is left
RECURSIVE TermLoop(_, _, _, _)
TermLoop(st, c, term, readed_bytes) ==
    IF st.pos < size
    THEN LET rb == read_bytes(st, c, 1)
         IN  IF ~rb.ok THEN Err(rb.st, rb.cur, rb.err)
             ELSE IF rb.bytes[1] # term
                  THEN TermLoop(rb.st, rb.cur, term, Append(readed_bytes, rb.bytes[1]))
                  ELSE Ok(undo_last(rb.st), rb.cur, readed_bytes, U64Zero)
    ELSE Ok(st, c, readed_bytes, U64Zero)

read_bytes_term(st, c, term, include, consume, eos_error) ==
    LET lp == TermLoop(st, c, term, <<>>)
    IN  IF ~lp.ok THEN lp
        ELSE IF at_end(lp.st)
             THEN IF eos_error THEN Err(lp.st, lp.cur, EncounteredEOF)
                  ELSE lp
             ELSE Ok(IF consume THEN [lp.st EXCEPT !.pos = @ + 1] ELSE lp.st,
                     lp.cur,
                     IF include THEN Append(lp.bytes, term) ELSE lp.bytes,
                     U64Zero)

(***************************************************************************)
(* KStream: bytes_terminate.                                               *)
(***************************************************************************)
\* while bytes[new_len] != term && new_len < bytes.len() { new_len += 1; }
\* bytes[new_len] is evaluated first, and panics when new_len is bytes.len()
RECURSIVE TerminateLoop(_, _, _)
TerminateLoop(bytes, term, new_len) ==
    IF new_len >= Len(bytes)
    THEN [panic |-> TRUE, new_len |-> new_len]
    ELSE IF bytes[new_len + 1] # term /\ new_len < Len(bytes)
         THEN TerminateLoop(bytes, term, new_len + 1)
         ELSE [panic |-> FALSE, new_len |-> new_len]

bytes_terminate(bytes, term, include_term) ==
    LET lp == TerminateLoop(bytes, term, 0)
        new_len == IF include_term /\ lp.new_len < Len(bytes)
                   THEN lp.new_len + 1 ELSE lp.new_len
    IN  IF lp.panic
        THEN [ok |-> FALSE, err |-> Panic(lp.new_len), bytes |-> <<>>]
        ELSE [ok |-> TRUE, err |-> NoErr, bytes |-> SubSeq(bytes, 1, new_len)]

(***************************************************************************)
(* KStream: process_rotate_left.  A shift of a u8 by 8 or more panics in a *)
(* build with overflow checks; in a build without them the amount is taken *)
(* modulo 8.  Which build it is, is an input.                              *)
(***************************************************************************)
\* the amounts of the shifts of a u8 that process_rotate_left makes
rotate_shifts(bytes, amount) ==
    IF bytes = <<>> THEN {} ELSE {amount, 8 - amount}

\* b << s on a u8, 0 <= s < 8
Shl8(b, s) == (b * Pow2[s + 1]) % 256

\* b >> s on a u8, 0 <= s < 8
Shr8(b, s) == b \div Pow2[s + 1]

\* x | y on u8
Or8(x, y) ==
    LET bx == ByteBits[x]
        by == ByteBits[y]
    IN  (IF bx[1] = 1 \/ by[1] = 1 THEN 128 ELSE 0)
        + (IF bx[2] = 1 \/ by[2] = 1 THEN 64 ELSE 0)
        + (IF bx[3] = 1 \/ by[3] = 1 THEN 32 ELSE 0)
        + (IF bx[4] = 1 \/ by[4] = 1 THEN 16 ELSE 0)
        + (IF bx[5] = 1 \/ by[5] = 1 THEN 8 ELSE 0)
        + (IF bx[6] = 1 \/ by[6] = 1 THEN 4 ELSE 0)
        + (IF bx[7] = 1 \/ by[7] = 1 THEN 2 ELSE 0)
        + (IF bx[8] = 1 \/ by[8] = 1 THEN 1 ELSE 0)

\* *i = (*i << amount) | (*i >> (8 - amount)), for each byte of the copy
process_rotate_left(bytes, amount, overflow_checks) ==
    IF \E s \in rotate_shifts(bytes, amount) : s >= 8 /\ overflow_checks
    THEN [ok |-> FALSE, err |-> Panic(8 - amount), bytes |-> <<>>]
    ELSE [ok |-> TRUE, err |-> NoErr,
          bytes |-> [i \in 1..Len(bytes) |->
                        Or8(Shl8(bytes[i], amount % 8),
                            Shr8(bytes[i], (8 - amount) % 8))]]

(***************************************************************************)
(* Calls.  A call on reader r runs the whole primitive, stores the reader  *)
(* state and the native cursor it leaves, and hands its result to the      *)
(* caller in `last`; the caller consumes the result before its next call   *)
(* (the runtime is single-threaded and synchronous).                       *)
(***************************************************************************)
NoFlags == [term |-> 0, include |-> FALSE, consume |-> FALSE, eos_error |-> FALSE]

NoCall ==
    [op |-> "none", r |-> 0, n |-> 0, n2 |-> 0, flags |-> NoFlags,
     ok |-> TRUE, err |-> NoErr, bytes |-> <<>>, val |-> U64Zero, val2 |-> U64Zero,
     arg |-> <<>>, pre |-> <<>>, precur |-> 0]

Returned(op, r, n, flags, res) ==
    [op |-> op, r |-> r, n |-> n, n2 |-> 0, flags |-> flags,
     ok |-> res.ok, err |-> res.err, bytes |-> res.bytes, val |-> res.val,
     val2 |-> U64Zero, arg |-> <<>>, pre |-> readers, precur |-> cur]

Commit(op, r, n, flags, res) ==
    /\ last.op = "none"
    /\ readers' = [readers EXCEPT ![r] = res.st]
    /\ cur' = res.cur
    /\ last' = Returned(op, r, n, flags, res)
    /\ UNCHANGED <<src, tree>>

CallReadBytes(r, len) ==
    Commit("read_bytes", r, len, NoFlags, read_bytes(readers[r], cur, len))

CallReadBytesFull(r) ==
    Commit("read_bytes_full", r, 0, NoFlags, read_bytes_full(readers[r], cur))

CallReadBytesTerm(r, term, include, consume, eos_error) ==
    Commit("read_bytes_term", r, 0,
           [term |-> term, include |-> include, consume |-> consume,
            eos_error |-> eos_error],
           read_bytes_term(readers[r], cur, term, include, consume, eos_error))

CallReadFixed(r, width, big_endian) ==
    Commit("read_fixed", r, width, NoFlags,
           read_fixed(readers[r], cur, width, big_endian))

CallSeek(r, position) ==
    Commit("seek", r, position, NoFlags, seek(readers[r], cur, position))

CallAlignToByte(r) ==
    Commit("align_to_byte", r, 0, NoFlags, align_to_byte(readers[r], cur))

CallReadBitsIntBe(r, n) ==
    Commit("read_bits_int_be", r, n, NoFlags, read_bits_int_be(readers[r], cur, n))

CallReadBitsIntLe(r, n) ==
    Commit("read_bits_int_le", r, n, NoFlags, read_bits_int_le(readers[r], cur, n))

\* let c = reader.clone(): a new reader over the same source
CallClone(r) ==
    /\ last.op = "none"
    /\ Len(readers) < MaxReaders
    /\ readers' = Append(readers, clone(readers[r]))
    /\ last' = [Returned("clone", r, 0, NoFlags, Ok(readers[r], cur, <<>>, U64Zero))
                  EXCEPT !.n = Len(readers) + 1]
    /\ UNCHANGED <<src, cur, tree>>

\* Self::bytes_terminate(&bytes, term, include_term) on the bytes that a
\* read has just returned
CallBytesTerminate(term, include_term) ==
    /\ last.op \in {"read_bytes", "read_bytes_full"}
    /\ last.ok
    /\ LET res == bytes_terminate(last.bytes, term, include_term)
       IN  last' = [last EXCEPT !.op = "bytes_terminate",
                                !.arg = last.bytes,
                                !.flags = [NoFlags EXCEPT !.term = term,
                                                          !.include = include_term],
                                !.ok = res.ok,
                                !.err = res.err,
                                !.bytes = res.bytes]
    /\ UNCHANGED <<src, cur, readers, tree>>

\* Self::process_rotate_left(&bytes, amount) on the bytes that a read has
\* just returned, in a build with or without overflow checks
CallProcessRotateLeft(amount, overflow_checks) ==
    /\ last.op \in {"read_bytes", "read_bytes_full"}
    /\ last.ok
    /\ LET res == process_rotate_left(last.bytes, amount, overflow_checks)
       IN  last' = [last EXCEPT !.op = "process_rotate_left",
                                !.n = amount,
                                !.arg = last.bytes,
                                !.ok = res.ok,
                                !.err = res.err,
                                !.bytes = res.bytes]
    /\ UNCHANGED <<src, cur, readers, tree>>

\* the caller takes the result of the call that has returned; a call that
\* panicked has no result to take
Observe ==
    /\ last.op # "none"
    /\ last.err.kind # "panic"
    /\ last' = NoCall
    /\ UNCHANGED <<src, cur, readers, tree>>

(***************************************************************************)
(* Node types.  A type T: KStruct names its Root and its Parent type.      *)
(* KStructUnit is the type of lib.rs; Top, Child and Item stand for the    *)
(* generated types: a root, a child of the root, and a type whose parent   *)
(* is of its own type.                                                     *)
(***************************************************************************)
Types == {"KStructUnit", "Top", "Child", "Item"}

\* type Root = ...
Root == [T \in Types |-> IF T = "KStructUnit" THEN "KStructUnit" ELSE "Top"]

\* type Parent = ...
Parent ==
    [T \in Types |->
        CASE T = "KStructUnit" -> "KStructUnit"
          [] T = "Top" -> "KStructUnit"
          [] T = "Child" -> "Top"
          [] T = "Item" -> "Item"]

(***************************************************************************)
(* SharedType<U>: RefCell<Weak<U>>.  target = 0 is Weak::new(); a Weak to  *)
(* node k upgrades while nodes[k].strong > 0.                              *)
(***************************************************************************)
\* a slot of the caller that holds no cell
NoCell == [type |-> "none", target |-> 0]

\* SharedType::<U>::empty()
SharedType_empty(U) == [type |-> U, target |-> 0]

\* SharedType::new(rc), rc an owning handle to node k: Rc::downgrade(&rc)
SharedType_new(k) == [type |-> nodes[k].type, target |-> k]

\* Weak::strong_count
strong_count(cell) == IF cell.target = 0 THEN 0 ELSE nodes[cell.target].strong

\* SharedType::is_empty
is_empty(cell) == strong_count(cell) = 0

\* Weak::upgrade: the node, or 0 for None
upgrade(cell) ==
    IF cell.target # 0 /\ nodes[cell.target].strong > 0 THEN cell.target ELSE 0

\* SharedType::get: Ok with a new owning handle to the node, or MissingParent
get_unchecked(cell) ==
    [ok |-> cell.target # 0, err |-> IF cell.target # 0 THEN NoErr ELSE MissingParent,
     node |-> cell.target]

get(cell) ==
    IF upgrade(cell) # 0
    THEN [ok |-> TRUE, err |-> NoErr, node |-> upgrade(cell)]
    ELSE [ok |-> FALSE, err |-> MissingParent, node |-> 0]

\* Option<SharedType<U>>
None == [some |-> FALSE, cell |-> NoCell]
Some(cell) == [some |-> TRUE, cell |-> cell]

\* KStruct::downcast without the arm Some(as_result) => SharedType::new(..)
downcast_no_self(opt_rc, k, U, panic) ==
    IF opt_rc.some THEN [panic |-> FALSE, cell |-> opt_rc.cell]
    ELSE IF panic /\ nodes[k].type # U THEN [panic |-> TRUE, cell |-> NoCell]
         ELSE [panic |-> FALSE, cell |-> SharedType_empty(U)]

\* KStruct::downcast::<T, U>(opt_rc, t, panic), t an owning handle to node k
\* of type T: the back-reference, or the panic.  The handles it takes (t,
\* t.get(), Rc::clone(as_result)) are all dropped when it returns.
downcast(opt_rc, k, U, panic) ==
    IF opt_rc.some THEN [panic |-> FALSE, cell |-> opt_rc.cell]
    ELSE IF nodes[k].type = U
         THEN [panic |-> FALSE, cell |-> SharedType_new(k)]
         ELSE IF panic THEN [panic |-> TRUE, cell |-> NoCell]
              ELSE [panic |-> FALSE, cell |-> SharedType_empty(U)]

(***************************************************************************)
(* Owning handles and back-reference cells of the caller.                  *)
(***************************************************************************)
NoRet == [op |-> "none", cell |-> NoCell, ok |-> TRUE, err |-> NoErr, node |-> 0,
          val |-> FALSE, pre |-> <<>>]

\* the caller is between two calls
AtRest == frame.pc = "idle" /\ ret.op = "none"

\* one owning handle to node k is dropped; the node is freed with the last
Dropped(k) == [nodes EXCEPT ![k].strong = @ - 1]

\* Rc::clone / OptRc::clone of a handle the caller holds
RcClone(k) ==
    /\ AtRest
    /\ nodes[k].strong > 0
    /\ nodes[k].strong < MaxStrong
    /\ nodes' = [nodes EXCEPT ![k].strong = @ + 1]
    /\ UNCHANGED <<src, cur, readers, last, cells, frame, ret>>

\* drop of a handle the caller holds
RcDrop(k) ==
    /\ AtRest
    /\ nodes[k].strong > 0
    /\ nodes' = Dropped(k)
    /\ UNCHANGED <<src, cur, readers, last, cells, frame, ret>>

\* cells[c] = SharedType::new(rc): rc, a handle of the caller to node k, is
\* moved in, downgraded and dropped
CellNew(c, k) ==
    /\ AtRest
    /\ nodes[k].strong > 0
    /\ cells' = [cells EXCEPT ![c] = SharedType_new(k)]
    /\ nodes' = Dropped(k)
    /\ UNCHANGED <<src, cur, readers, last, frame, ret>>

\* cells[c] = SharedType::<U>::empty()
CellEmpty(c, U) ==
    /\ AtRest
    /\ cells' = [cells EXCEPT ![c] = SharedType_empty(U)]
    /\ UNCHANGED <<src, cur, readers, last, nodes, frame, ret>>

\* cells[d] = cells[c].clone()
CellClone(c, d) ==
    /\ AtRest
    /\ cells[c] # NoCell
    /\ c # d
    /\ cells' = [cells EXCEPT ![d] = cells[c]]
    /\ UNCHANGED <<src, cur, readers, last, nodes, frame, ret>>

\* cells[c].set(Err(_)): the cell is reassigned Weak::new()
CellSetErr(c) ==
    /\ AtRest
    /\ cells[c] # NoCell
    /\ cells' = [cells EXCEPT ![c].target = 0]
    /\ UNCHANGED <<src, cur, readers, last, nodes, frame, ret>>

\* cells[c].set(Ok(OptRc::default())): v.get() unwraps a None and panics,
\* before the cell is borrowed
CellSetNone(c) ==
    /\ AtRest
    /\ cells[c] # NoCell
    /\ ret' = [NoRet EXCEPT !.op = "set", !.cell = cells[c], !.ok = FALSE,
                             !.err = Panic(0), !.pre = nodes]
    /\ UNCHANGED <<src, cur, readers, last, nodes, cells, frame>>

\* cells[c].set(Ok(v)), v an owning handle of the caller to node k of the
\* cell's type: the cell is reassigned Rc::downgrade(&v.get()), v is dropped
CellSet(c, k) ==
    /\ AtRest
    /\ cells[c] # NoCell
    /\ nodes[k].strong > 0
    /\ nodes[k].type = cells[c].type
    /\ cells' = [cells EXCEPT ![c].target = k]
    /\ nodes' = Dropped(k)
    /\ UNCHANGED <<src, cur, readers, last, frame, ret>>

\* cells[c].get(): on success the caller receives one more owning handle
CellGet(c) ==
    /\ AtRest
    /\ cells[c] # NoCell
    /\ LET res == get(cells[c])
       IN  /\ ret' = [NoRet EXCEPT !.op = "get", !.cell = cells[c], !.ok = res.ok,
                                    !.err = res.err, !.node = res.node,
                                    !.pre = nodes]
           /\ nodes' = IF res.ok THEN [nodes EXCEPT ![res.node].strong = @ + 1]
                       ELSE nodes
    /\ UNCHANGED <<src, cur, readers, last, cells, frame>>

\* cells[c].is_empty()
CellIsEmpty(c) ==
    /\ AtRest
    /\ cells[c] # NoCell
    /\ ret' = [NoRet EXCEPT !.op = "is_empty", !.cell = cells[c],
                             !.val = is_empty(cells[c]), !.pre = nodes]
    /\ UNCHANGED <<src, cur, readers, last, nodes, cells, frame>>

\* the caller takes the result of get or is_empty, and keeps or drops the
\* handle that get returned; a set that panicked has no result to take
TakeRet(keep) ==
    /\ ret.op \in {"get", "is_empty"}
    /\ ret' = NoRet
    /\ IF ret.op = "get" /\ ret.ok
       THEN IF keep
            THEN nodes[ret.node].strong <= MaxStrong /\ UNCHANGED nodes
            ELSE nodes' = Dropped(ret.node)
       ELSE keep /\ UNCHANGED nodes
    /\ UNCHANGED <<src, cur, readers, last, cells, frame>>

(***************************************************************************)
(* KStruct::read_into and read_into_with_init, step by step: the node is   *)
(* allocated, the caller's initializer runs, the back-references are       *)
(* derived, the type's read routine runs, the helper returns.  The         *)
(* initializer and the read routine are code of the caller and of the      *)
(* generated type: each returns Ok or one of two errors.                   *)
(***************************************************************************)
Idle ==
    [pc |-> "idle", with_init |-> FALSE, T |-> "KStructUnit",
     root_arg |-> None, parent_arg |-> None, t |-> 0, inits |-> 0,
     init_res |-> NoErr, read_res |-> NoErr,
     root |-> NoCell, parent |-> NoCell, root_up |-> 0, parent_up |-> 0,
     log |-> <<>>, ok |-> TRUE, err |-> NoErr]

\* what the initializer returns: Ok(()) or an error
InitResults == {NoErr, EncounteredEOF}

\* what the read routine returns: Ok(()) or an error
ReadResults == {NoErr, Incomplete(1)}

\* OptRc::from(T::default()): a new node with one owning handle
Allocated(T) == Append(nodes, [type |-> T, strong |-> 1])

\* let rc = OptRc::from(T::default()), by the caller
OptRcFrom(T) ==
    /\ AtRest
    /\ Len(nodes) < MaxNodes
    /\ nodes' = Allocated(T)
    /\ UNCHANGED <<src, cur, readers, last, cells, frame, ret>>

\* let t = OptRc::from(T::default())
Enter(T, _root, _parent, with_init) ==
    /\ AtRest
    /\ Len(nodes) < MaxNodes
    /\ nodes' = Allocated(T)
    /\ frame' = [Idle EXCEPT !.pc = IF with_init THEN "init" ELSE "derive",
                             !.with_init = with_init, !.T = T,
                             !.root_arg = _root, !.parent_arg = _parent,
                             !.t = Len(nodes) + 1, !.log = <<"alloc">>]
    /\ UNCHANGED <<src, cur, readers, last, cells, ret>>

read_into(T, _root, _parent) == Enter(T, _root, _parent, FALSE)

read_into_with_init(T, _root, _parent) == Enter(T, _root, _parent, TRUE)

\* init(..)?: where the helper goes on after the initializer returned res
after_init_unchecked(res) == "derive"

after_init(res) == IF res = NoErr THEN "derive" ELSE "done"

\* T::read(..)?: the KResult of the helper after read returned res
after_read(res) == [ok |-> res = NoErr, err |-> res]

\* init(Rc::get_mut(t.get_mut()).unwrap())?: the initializer runs on the
\* instance, which has one handle and no back-reference yet; on an error the
\* helper returns it and t is dropped
RunInit(res) ==
    /\ frame.pc = "init"
    /\ LET next == after_init(res)
       IN  /\ frame' = [frame EXCEPT !.pc = next,
                                     !.init_res = res,
                                     !.inits = @ + 1,
                                     !.log = Append(@, "init"),
                                     !.ok = (next # "done"),
                                     !.err = IF next = "done" THEN res ELSE NoErr]
           /\ nodes' = IF next = "done"
                       THEN [nodes EXCEPT ![frame.t].strong = 0]
                       ELSE nodes
    /\ UNCHANGED <<src, cur, readers, last, cells, ret>>

\* let root = Self::downcast(_root, t.clone(), true);
\* let parent = Self::downcast(_parent, t.clone(), false);
\* a panic of the first unwinds the helper, and t is dropped
Derive ==
    /\ frame.pc = "derive"
    /\ LET root == downcast(frame.root_arg, frame.t, Root[frame.T], TRUE)
           parent == downcast(frame.parent_arg, frame.t, Parent[frame.T], FALSE)
       IN  IF root.panic
           THEN /\ frame' = [frame EXCEPT !.pc = "done", !.ok = FALSE,
                                          !.err = Panic(0),
                                          !.log = Append(@, "root")]
                /\ nodes' = [nodes EXCEPT ![frame.t].strong = 0]
           ELSE /\ frame' = [frame EXCEPT !.pc = "read",
                                          !.root = root.cell,
                                          !.parent = parent.cell,
                                          !.log = @ \o <<"root", "parent">>]
                /\ UNCHANGED nodes
    /\ UNCHANGED <<src, cur, readers, last, cells, ret>>

\* T::read(&t, _io, root, parent)?; Ok(t): the read routine receives the
\* back-references and returns res; on an error the helper returns it and t
\* is dropped, otherwise the caller receives t
ReadStep(res) ==
    /\ frame.pc = "read"
    /\ LET out == after_read(res)
       IN  /\ frame' = [frame EXCEPT !.pc = "done",
                                     !.read_res = res,
                                     !.root_up = upgrade(frame.root),
                                     !.parent_up = upgrade(frame.parent),
                                     !.log = Append(@, "read"),
                                     !.ok = out.ok,
                                     !.err = out.err]
           /\ nodes' = IF out.ok THEN nodes
                       ELSE [nodes EXCEPT ![frame.t].strong = 0]
    /\ UNCHANGED <<src, cur, readers, last, ret>>

\* a read routine that drops the back-references when it returns
RunRead(res) ==
    /\ ReadStep(res)
    /\ UNCHANGED cells

\* a read routine that moves the root back-reference it was handed into
\* cells[c], where the caller finds it after the call
RunReadKeeping(res, c) ==
    /\ ReadStep(res)
    /\ cells' = [cells EXCEPT ![c] = frame.root]

\* the caller takes the KResult of the helper; a helper that panicked
\* returns nothing
Return ==
    /\ frame.pc = "done"
    /\ frame.err.kind # "panic"
    /\ frame' = Idle
    /\ UNCHANGED <<src, cur, readers, last, nodes, cells, ret>>

\* no node, no cell, no call: the tree before anything is parsed
NoTree ==
    /\ nodes = <<>>
    /\ cells = [c \in 1..MaxCells |-> NoCell]
    /\ frame = Idle
    /\ ret = NoRet

(***************************************************************************)
(* Sources and arguments.                                                  *)
(***************************************************************************)
\* BytesReader::from(bytes): a source of len bytes
Source(seed, len) == [i \in 1..len |-> (seed + 77 * i) % 256]

Bools == {TRUE, FALSE}

\* terminators: the first byte, the last byte, and a byte the source lacks
Terms == {src[1], src[size]}
         \cup {CHOOSE b \in 0..255 : \A i \in 1..size : src[i] # b}

\* the bit counts of Spec: the small ones, the limit and one past it
BitCounts == (0..FewBits) \cup {MaxBits, MaxBits + 1}

\* the shortest source on which a read of MaxBits bits succeeds with residual
\* bits in the buffer
BitsLen == (MaxBits \div 8) + 1

(***************************************************************************)
(* Spec: one reader over a source of SrcLen bytes and every primitive,     *)
(* with every argument up to one past its limit.                           *)
(***************************************************************************)
Init ==
    /\ src = Source(129, SrcLen)
    /\ cur = 0
    /\ readers = <<ReaderState>>
    /\ last = NoCall
    /\ NoTree

Next ==
    \/ \E len \in 0..(SrcLen + 1) : CallReadBytes(1, len)
    \/ CallReadBytesFull(1)
    \/ \E term \in Terms, include \in Bools, consume \in Bools, eos_error \in Bools :
          CallReadBytesTerm(1, term, include, consume, eos_error)
    \/ \E position \in 0..(SrcLen + 2) : CallSeek(1, position)
    \/ CallAlignToByte(1)
    \/ \E n \in BitCounts : CallReadBitsIntBe(1, n)
    \/ \E n \in BitCounts : CallReadBitsIntLe(1, n)
    \/ \E width \in Widths, big_endian \in Bools : CallReadFixed(1, width, big_endian)
    \/ Observe

Spec == Init /\ [][Next]_vars

(***************************************************************************)
(* SpecClone: a reader and its clones over one source of CloneLen bytes,   *)
(* every interleaving of their calls.                                      *)
(***************************************************************************)
InitClone ==
    /\ src = Source(129, CloneLen)
    /\ cur = 0
    /\ readers = <<ReaderState>>
    /\ last = NoCall
    /\ NoTree

NextClone ==
    \/ \E r \in DOMAIN readers : CallClone(r)
    \/ \E r \in DOMAIN readers, len \in 0..(CloneLen + 1) : CallReadBytes(r, len)
    \/ \E r \in DOMAIN readers : CallReadBytesFull(r)
    \/ \E r \in DOMAIN readers, position \in 0..(CloneLen + 1) : CallSeek(r, position)
    \/ \E r \in DOMAIN readers : CallReadBitsIntBe(r, 4)
    \/ Observe

SpecClone == InitClone /\ [][NextClone]_vars

(***************************************************************************)
(* SpecSplit: one reader over a source of BitsLen bytes, bit reads of      *)
(* every size in both bit orders; only calls that succeed are taken.       *)
(***************************************************************************)
InitSplit ==
    /\ src = Source(129, BitsLen)
    /\ cur = 0
    /\ readers = <<ReaderState>>
    /\ last = NoCall
    /\ NoTree

NextSplit ==
    \/ (\E n \in 0..MaxBits : CallReadBitsIntBe(1, n)) /\ last'.ok
    \/ (\E n \in 0..MaxBits : CallReadBitsIntLe(1, n)) /\ last'.ok
    \/ CallAlignToByte(1)
    \/ Observe

SpecSplit == InitSplit /\ [][NextSplit]_vars

(***************************************************************************)
(* SpecWide: one reader over a source of BitsLen bytes, bit reads of 1, 9  *)
(* and MaxBits bits in both bit orders and seeks to both ends: reads of    *)
(* MaxBits bits that succeed from every state, also after calls that       *)
(* failed.                                                                 *)
(***************************************************************************)
InitWide ==
    /\ src = Source(129, BitsLen)
    /\ cur = 0
    /\ readers = <<ReaderState>>
    /\ last = NoCall
    /\ NoTree

NextWide ==
    \/ \E n \in {1, 9, MaxBits} : CallReadBitsIntBe(1, n)
    \/ \E n \in {1, 9, MaxBits} : CallReadBitsIntLe(1, n)
    \/ \E position \in {0, BitsLen} : CallSeek(1, position)
    \/ Observe

SpecWide == InitWide /\ [][NextWide]_vars

(***************************************************************************)
(* SpecTerm: one reader over every source of TermLen bytes drawn from two  *)
(* byte values (the terminator may be absent, or occur more than once),    *)
(* terminated reads with every flag from every cursor, Aligned or not, and *)
(* bytes_terminate and process_rotate_left on the bytes of every read.     *)
(***************************************************************************)
InitTerm ==
    /\ src \in [1..TermLen -> {27, 206}]
    /\ cur = 0
    /\ readers = <<ReaderState>>
    /\ last = NoCall
    /\ NoTree

NextTerm ==
    \/ \E term \in Terms, include \in Bools, consume \in Bools, eos_error \in Bools :
          CallReadBytesTerm(1, term, include, consume, eos_error)
    \/ \E position \in 0..TermLen : CallSeek(1, position)
    \/ CallReadBitsIntLe(1, 3)
    \/ \E len \in 0..TermLen : CallReadBytes(1, len)
    \/ \E term \in Terms, include_term \in Bools :
          CallBytesTerminate(term, include_term)
    \/ \E amount \in 0..7, overflow_checks \in Bools :
          CallProcessRotateLeft(amount, overflow_checks)
    \/ Observe

SpecTerm == InitTerm /\ [][NextTerm]_vars

(***************************************************************************)
(* SpecTree: the caller allocates nodes of every type with read_into and   *)
(* read_into_with_init, with and without explicit back-references (to a    *)
(* node that is alive, or freed), and clones and drops its owning handles. *)
(***************************************************************************)
\* the Option<SharedType<U>> a caller can pass: None, an empty cell, or a
\* clone of one of its cells of that type
Args(U) ==
    {None, Some(SharedType_empty(U))}
        \cup {Some(cells[c]) : c \in {d \in 1..MaxCells : cells[d].type = U}}

InitTree ==
    /\ src = <<>>
    /\ cur = 0
    /\ readers = <<ReaderState>>
    /\ last = NoCall
    /\ NoTree

NextTree ==
    \/ \E T \in Types : \E _root \in Args(Root[T]), _parent \in Args(Parent[T]) :
          read_into(T, _root, _parent)
    \/ \E T \in Types : \E _root \in Args(Root[T]), _parent \in Args(Parent[T]) :
          read_into_with_init(T, _root, _parent)
    \/ \E res \in InitResults : RunInit(res)
    \/ Derive
    \/ \E res \in ReadResults : RunRead(res)
    \/ Return
    \/ \E k \in DOMAIN nodes : RcClone(k)
    \/ \E k \in DOMAIN nodes : RcDrop(k)
    \/ \E k \in DOMAIN nodes : CellNew(1, k)

SpecTree == InitTree /\ [][NextTree]_vars

(***************************************************************************)
(* SpecCell: the caller allocates nodes, clones and drops its owning       *)
(* handles, and constructs, reassigns, clones and reads back-reference     *)
(* cells.                                                                  *)
(***************************************************************************)
InitCell ==
    /\ src = <<>>
    /\ cur = 0
    /\ readers = <<ReaderState>>
    /\ last = NoCall
    /\ NoTree

NextCell ==
    \/ OptRcFrom("KStructUnit")
    \/ \E k \in DOMAIN nodes : RcClone(k)
    \/ \E k \in DOMAIN nodes : RcDrop(k)
    \/ \E c \in 1..MaxCells, k \in DOMAIN nodes : CellNew(c, k)
    \/ \E c \in 1..MaxCells : CellEmpty(c, "KStructUnit")
    \/ \E c \in 1..MaxCells, d \in 1..MaxCells : CellClone(c, d)
    \/ \E c \in 1..MaxCells : CellSetErr(c)
    \/ \E c \in 1..MaxCells : CellSetNone(c)
    \/ \E c \in 1..MaxCells, k \in DOMAIN nodes : CellSet(c, k)
    \/ \E c \in 1..MaxCells : CellGet(c)
    \/ \E c \in 1..MaxCells : CellIsEmpty(c)
    \/ \E keep \in Bools : TakeRet(keep)

SpecCell == InitCell /\ [][NextCell]_vars

(***************************************************************************)
(* SpecRoot: the caller allocates nodes of every type with read_into, with *)
(* and without an explicit root back-reference; each read routine keeps    *)
(* the root back-reference it was handed; the caller clones and drops its  *)
(* owning handles and reads the kept back-references.                      *)
(***************************************************************************)
InitRoot ==
    /\ src = <<>>
    /\ cur = 0
    /\ readers = <<ReaderState>>
    /\ last = NoCall
    /\ NoTree

NextRoot ==
    \/ \E T \in Types : \E _root \in Args(Root[T]) : read_into(T, _root, None)
    \/ Derive
    \/ \E res \in ReadResults, c \in 1..MaxCells : RunReadKeeping(res, c)
    \/ Return
    \/ \E k \in DOMAIN nodes : RcClone(k)
    \/ \E k \in DOMAIN nodes : RcDrop(k)
    \/ \E c \in 1..MaxCells : CellGet(c)
    \/ \E c \in 1..MaxCells : CellIsEmpty(c)
    \/ \E keep \in Bools : TakeRet(keep)

SpecRoot == InitRoot /\ [][NextRoot]_vars

(***************************************************************************)
(* Properties.                                                             *)
(***************************************************************************)
\* source[p .. p + n]
Slice(p, n) == [i \in 1..n |-> src[p + i]]

\* the reader the returned call was made on, before and after the call
Before == last.pre[last.r]
After == readers[last.r]

BitReads == {"read_bits_int_be", "read_bits_int_le"}

C2_Seek ==
    last.op = "seek" =>
        IF last.n <= size
        THEN last.ok /\ After.pos = last.n
        ELSE /\ ~last.ok
             /\ last.err = Incomplete(last.n - Before.pos)
             /\ After.pos = Before.pos

\* a seek past the end that failed, from a cursor inside the source
C2_Witness ==
    /\ last.op = "seek"
    /\ ~last.ok
    /\ Before.pos > 0
    /\ Before.pos < size

\* C3 as stated: clone() on a reader in any state returns a reader whose state
\* is the default one: pos = 0, bits = 0 and bits_left = 0.
C3_CloneIsDefault ==
    last.op = "clone" => readers[last.n] = ReaderState

\* C3, amended: clone() on a reader in any state returns a new reader over the
\* same source whose pos, bits and bits_left are copies of the original's at
\* the time of the call; the original and the native cursor are unchanged.
C3_CloneCopiesState ==
    last.op = "clone" =>
        /\ Len(readers) = Len(last.pre) + 1
        /\ last.n = Len(readers)
        /\ readers[last.n] = Before
        /\ \A r \in DOMAIN last.pre : readers[r] = last.pre[r]
        /\ cur = last.precur

\* a clone taken from a reader that has advanced and holds residual bits
C3_Witness ==
    /\ last.op = "clone"
    /\ Before.pos > 0
    /\ Before.bits_left > 0
    /\ Before.bits # U64Zero

\* C4: for a reader and its clones sharing one source, under every
\* interleaving of their calls: each successful read_bytes(n) on a reader
\* returns exactly source[pos .. pos + n] for that reader's own pos, and a call
\* on one reader never changes the pos, bits or bits_left of another reader.
C4_ClonesIndependent ==
    last.op # "none" =>
        /\ \A r \in DOMAIN last.pre : r # last.r => readers[r] = last.pre[r]
        /\ (last.op = "read_bytes" /\ last.ok) =>
              last.bytes = Slice(Before.pos, last.n)
        /\ (last.op = "read_bytes_full" /\ last.ok) =>
              last.bytes = Slice(Before.pos, size - Before.pos)

\* a successful read on one reader after another reader has left the native
\* cursor elsewhere
C4_Witness ==
    /\ last.op = "read_bytes"
    /\ last.ok
    /\ last.n > 0
    /\ Len(readers) > 1
    /\ last.precur # Before.pos
    /\ \E r \in DOMAIN readers : r # last.r /\ readers[r].pos = last.precur

\* bit j of the source read as a stream of bits, most significant bit of
\* each byte first (j = 0 is the top bit of the first byte)
StreamBitBE(j) == (src[(j \div 8) + 1] \div Pow2[8 - (j % 8)]) % 2

\* bit j of the source read as a stream of bits, least significant bit of
\* each byte first
StreamBitLE(j) == (src[(j \div 8) + 1] \div Pow2[(j % 8) + 1]) % 2

\* C5: read_bits_int_be(n), 0 <= n <= 64, on an Aligned reader (bits_left = 0)
\* at pos p with at least ceil(n/8) bytes remaining returns the unsigned
\* integer whose binary digits are the first n bits of source[p..], most
\* significant bit first within each byte, right-justified.
C5_BitsBeValue ==
    (/\ last.op = "read_bits_int_be"
     /\ last.n <= 64
     /\ Before.bits_left = 0
     /\ 8 * (size - Before.pos) >= last.n) =>
        /\ last.ok
        /\ \A i \in 0..63 :
              Bit(last.val, i) =
                 IF i < last.n
                 THEN StreamBitBE(8 * Before.pos + (last.n - 1 - i))
                 ELSE 0

\* C6: read_bits_int_le(n), 0 <= n <= 64, on an Aligned reader at pos p with
\* at least ceil(n/8) bytes remaining returns the value whose bit i
\* (0 <= i < n, i = 0 the least significant) is bit (i mod 8), counted from the
\* least significant bit, of source byte p + floor(i/8); the bits at position
\* n and above are 0.
C6_BitsLeValue ==
    (/\ last.op = "read_bits_int_le"
     /\ last.n <= 64
     /\ Before.bits_left = 0
     /\ 8 * (size - Before.pos) >= last.n) =>
        /\ last.ok
        /\ \A i \in 0..63 :
              Bit(last.val, i) =
                 IF i < last.n THEN StreamBitLE(8 * Before.pos + i) ELSE 0

\* read_bits_int_be or read_bits_int_le, by name
ReadBits(op, st, c, n) ==
    IF op = "read_bits_int_be" THEN read_bits_int_be(st, c, n)
    ELSE read_bits_int_le(st, c, n)

\* the value of a bits followed by b bits: (va << b) | vb in big-endian bit
\* order, (vb << a) | va in little-endian bit order
Concat(op, va, a, vb, b) ==
    IF op = "read_bits_int_be" THEN Or64(Shl(va, b), vb)
    ELSE Or64(Shl(vb, a), va)

\* the shift of Concat drops no bit
ConcatFits(op, va, a, vb, b) ==
    IF op = "read_bits_int_be" THEN Shr(Shl(va, b), b) = va
    ELSE Shr(Shl(vb, a), a) = vb

\* C7: from every reader state reached by successful calls, and for a, b >= 0
\* with m = a + b <= 64 and enough source bytes, reading m bits in one call
\* gives the same value and the same final state (pos, bits, bits_left) as
\* reading a bits and then b bits in the same bit order, the value being
\* (va << b) | vb for read_bits_int_be and (vb << a) | va for
\* read_bits_int_le.  Checked when the read of a bits has returned: for every
\* b, the read of b bits that follows against the single read of a + b bits
\* from the state before.
C7_SplitRead ==
    (last.op \in BitReads /\ last.ok) =>
        \A b \in 0..(MaxBits - last.n) :
            LET one == ReadBits(last.op, Before, last.precur, last.n + b)
                two == ReadBits(last.op, After, cur, b)
            IN  one.ok =>
                  /\ two.ok
                  /\ ConcatFits(last.op, last.val, last.n, two.val, b)
                  /\ one.val = Concat(last.op, last.val, last.n, two.val, b)
                  /\ one.st = two.st

\* a read of a > 0 bits has returned on a reader that held residual bits, and
\* a + b = 64 bits can be read from where it started
C7_Witness ==
    /\ last.op \in BitReads
    /\ last.ok
    /\ last.n > 0
    /\ last.n < MaxBits
    /\ Before.bits_left > 0
    /\ Before.bits # U64Zero
    /\ After.bits_left > 0
    /\ ReadBits(last.op, Before, last.precur, MaxBits).ok

\* C8: in every state a reader can be in after any sequence of primitive
\* calls has returned, successful or failed, 0 <= bits_left <= 7 and bits has
\* no bit set at position bits_left or above.
C8_BitBuffer ==
    \A r \in DOMAIN readers :
        /\ 0 <= readers[r].bits_left
        /\ readers[r].bits_left <= 7
        /\ Shr(readers[r].bits, readers[r].bits_left) = U64Zero

\* C9: in every state reachable by any sequence of reader operations,
\* successful or failing, 0 <= pos <= size.
C9_PosInRange ==
    \A r \in DOMAIN readers : 0 <= readers[r].pos /\ readers[r].pos <= size

\* the cursor rests at the end of the source after a call that asked for more
C9_Witness ==
    /\ last.op \in {"seek", "read_bytes", "read_bits_int_be", "read_bits_int_le"}
    /\ ~last.ok
    /\ After.pos = size

\* C10: read_bits_int_be(n) and read_bits_int_le(n) with n > 64 fail with
\* ReadBitsTooLarge{requested: n} and leave pos, bits and bits_left exactly as
\* they were before the call, from any reader state.
C10_TooLarge ==
    (last.op \in BitReads /\ last.n > 64) =>
        /\ ~last.ok
        /\ last.err = ReadBitsTooLarge(last.n)
        /\ After = Before

\* a bit read of more than 64 bits on a reader that holds residual bits
C10_Witness ==
    /\ last.op \in BitReads
    /\ last.n > 64
    /\ Before.pos > 0
    /\ Before.bits_left > 0
    /\ Before.bits # U64Zero

\* the index of the first term in source[p..size], or size when there is none
FirstTerm(p, term) ==
    IF \E t \in p..(size - 1) : src[t + 1] = term
    THEN CHOOSE t \in p..(size - 1) :
             /\ src[t + 1] = term
             /\ \A u \in p..(t - 1) : src[u + 1] # term
    ELSE size

\* C11: read_bytes_term(term, include, consume, eos_error) at pos p, when the
\* first term at or after p is at index t < size, returns source[p..t],
\* followed by term iff include, and ends with pos = t + 1 if consume and
\* pos = t if not, whatever eos_error is; with consume = false a repeated call
\* with the same term keeps pos at t.
C11_TermFound ==
    LET p == Before.pos
        t == FirstTerm(p, last.flags.term)
    IN  (last.op = "read_bytes_term" /\ t < size) =>
            /\ last.ok
            /\ last.bytes = Slice(p, t - p)
                   \o (IF last.flags.include THEN <<last.flags.term>> ELSE <<>>)
            /\ After.pos = (IF last.flags.consume THEN t + 1 ELSE t)
            /\ After.bits = Before.bits
            /\ After.bits_left = Before.bits_left
            /\ ~last.flags.consume =>
                  \A include \in Bools, eos_error \in Bools :
                      LET again == read_bytes_term(After, cur, last.flags.term,
                                                   include, FALSE, eos_error)
                      IN  /\ again.ok
                          /\ again.st.pos = t
                          /\ again.bytes =
                                 (IF include THEN <<last.flags.term>> ELSE <<>>)

\* a terminator that occurs again later in the source, found after at least
\* one other byte, left unconsumed and included, by a call that would have
\* failed at the end of the source, on a reader that holds residual bits
C11_Witness ==
    /\ last.op = "read_bytes_term"
    /\ FirstTerm(Before.pos, last.flags.term) < size - 1
    /\ FirstTerm(Before.pos, last.flags.term) > Before.pos
    /\ src[size] = last.flags.term
    /\ Before.bits_left > 0
    /\ last.flags.include
    /\ ~last.flags.consume
    /\ last.flags.eos_error

\* C12: read_bytes_term at pos p when term does not occur in source[p..size]:
\* with eos_error it fails with EncounteredEOF; without, it returns
\* source[p..size], with no terminator byte whatever include is, and ends with
\* pos = size.
C12_TermMissing ==
    LET p == Before.pos
    IN  (last.op = "read_bytes_term" /\ FirstTerm(p, last.flags.term) = size) =>
            IF last.flags.eos_error
            THEN ~last.ok /\ last.err = EncounteredEOF
            ELSE /\ last.ok
                 /\ last.bytes = Slice(p, size - p)
                 /\ After.pos = size

\* no terminator in the rest of the source, which is not empty, although the
\* terminator occurs before the cursor; include is set
C12_Witness ==
    /\ last.op = "read_bytes_term"
    /\ FirstTerm(Before.pos, last.flags.term) = size
    /\ Before.pos > 0
    /\ Before.pos < size
    /\ src[1] = last.flags.term
    /\ last.flags.include
    /\ ~last.flags.eos_error

\* the index of the first term in seq, or Len(seq) when there is none
FirstIn(seq, term) ==
    IF \E i \in 1..Len(seq) : seq[i] = term
    THEN (CHOOSE i \in 1..Len(seq) :
              seq[i] = term /\ \A j \in 1..(i - 1) : seq[j] # term) - 1
    ELSE Len(seq)

\* C13: bytes_terminate(seq, term, include_term) returns, for every byte
\* sequence seq, the empty one and those without term included, the prefix of
\* seq before the first term, followed by that term iff include_term is set
\* and term occurs in seq; when term does not occur the result is seq
\* unchanged, and no index at or beyond seq.len() is read.
C13_BytesTerminate ==
    last.op = "bytes_terminate" =>
        LET t == FirstIn(last.arg, last.flags.term)
        IN  /\ last.ok
            /\ last.bytes =
                   SubSeq(last.arg, 1,
                          IF last.flags.include /\ t < Len(last.arg) THEN t + 1 ELSE t)

\* C13 where the code meets it: on a seq that contains term
C13_BytesTerminateFound ==
    (/\ last.op = "bytes_terminate"
     /\ FirstIn(last.arg, last.flags.term) < Len(last.arg)) =>
        LET t == FirstIn(last.arg, last.flags.term)
        IN  /\ last.ok
            /\ last.bytes = SubSeq(last.arg, 1, IF last.flags.include THEN t + 1 ELSE t)

\* the read routine of the call in progress has been invoked
HasRead == Len(frame.log) > 0 /\ frame.log[Len(frame.log)] = "read"

\* the back-references of the call in progress have been derived
Derived == frame.pc = "read" \/ HasRead

\* C14: read_into with no explicit root back-reference for a node type that
\* is not its own declared root type: the read routine is still invoked and
\* receives an empty root back-reference (is_empty true, upgrade failing);
\* the helper does not abort.
C14_EmptyRoot ==
    (/\ frame.pc = "done"
     /\ ~frame.with_init
     /\ ~frame.root_arg.some
     /\ Root[frame.T] # frame.T) =>
        /\ frame.err.kind # "panic"
        /\ HasRead
        /\ frame.root = SharedType_empty(Root[frame.T])
        /\ is_empty(frame.root)
        /\ frame.root_up = 0

\* C15: the parent back-reference that read_into and read_into_with_init pass
\* to read is exactly the one the caller supplied; when the caller supplies
\* none it is empty for every node type, a node type whose declared parent
\* type is its own type included: it never refers to the new node.
C15_ParentAsSupplied ==
    Derived =>
        /\ frame.parent.target # frame.t
        /\ frame.parent = (IF frame.parent_arg.some THEN frame.parent_arg.cell
                           ELSE SharedType_empty(Parent[frame.T]))

\* C15 where the code meets it: the caller supplied a parent back-reference,
\* or the declared parent type is not the node's own type
C15_ParentOfOtherType ==
    (Derived /\ (frame.parent_arg.some \/ Parent[frame.T] # frame.T)) =>
        /\ frame.parent.target # frame.t
        /\ frame.parent = (IF frame.parent_arg.some THEN frame.parent_arg.cell
                           ELSE SharedType_empty(Parent[frame.T]))

\* C16: for a back-reference cell, after any sequence of new / empty / set /
\* clone and of creating and dropping owning handles to its target: get()
\* succeeds, returning an owning handle to the target, iff at least one
\* owning handle to the target exists at the moment of the call, and fails
\* with MissingParent otherwise; is_empty() is true exactly when get() would
\* fail.
C16_Upgrade ==
    /\ ret.op = "get" =>
          LET k == ret.cell.target
          IN  /\ ret.ok <=> (k # 0 /\ ret.pre[k].strong > 0)
              /\ ret.ok => /\ ret.node = k
                           /\ nodes[k].strong = ret.pre[k].strong + 1
              /\ ~ret.ok => ret.err = MissingParent /\ nodes = ret.pre
    /\ ret.op = "is_empty" =>
          /\ ret.val <=> ~get(ret.cell).ok
          /\ nodes = ret.pre

\* get() on a cell whose target was freed with its last owning handle, while
\* another node is still alive
C16_Witness ==
    /\ ret.op = "get"
    /\ ret.cell.target # 0
    /\ ret.pre[ret.cell.target].strong = 0
    /\ \E k \in DOMAIN nodes : nodes[k].strong > 0

\* seq is the beginning of full
IsPrefix(seq, full) == Len(seq) <= Len(full) /\ seq = SubSeq(full, 1, Len(seq))

\* C17: in read_into_with_init the initializer runs exactly once on the fresh
\* default instance, before the back-references are derived and before the
\* read routine is invoked; if the initializer returns an error, read is
\* never invoked and that error is the result; if read fails, its error is
\* the result and no owning handle is returned.
C17_InitFirst ==
    (frame.pc # "idle" /\ frame.with_init) =>
        /\ IsPrefix(frame.log, <<"alloc", "init", "root", "parent", "read">>)
        /\ frame.inits = (IF frame.pc = "init" THEN 0 ELSE 1)
        /\ frame.pc = "init" =>
              /\ frame.t = Len(nodes)
              /\ nodes[frame.t].strong = 1
              /\ \A c \in 1..MaxCells : cells[c].target # frame.t
        /\ frame.init_res # NoErr =>
              /\ frame.pc = "done"
              /\ frame.log = <<"alloc", "init">>
              /\ ~frame.ok
              /\ frame.err = frame.init_res
              /\ nodes[frame.t].strong = 0
        /\ (HasRead /\ frame.read_res # NoErr) =>
              /\ ~frame.ok
              /\ frame.err = frame.read_res
              /\ nodes[frame.t].strong = 0

\* read_into_with_init has returned the error of the read routine, which ran
\* after an initializer that succeeded
C17_Witness ==
    /\ frame.pc = "done"
    /\ frame.with_init
    /\ HasRead
    /\ frame.init_res = NoErr
    /\ frame.read_res # NoErr

\* C18: a successful read_bits_int_be(n) or read_bits_int_le(n) from a state
\* with bits_left = k ends with bits_left = (k - n) mod 8: from Aligned it
\* ends Fractional iff n mod 8 # 0, from Fractional it ends Aligned iff n is
\* congruent to k modulo 8; align_to_byte from any state ends Aligned with
\* bits = 0 and pos unchanged; a fresh reader is Aligned with pos = 0.
C18_BitLifecycle ==
    /\ ReaderState.pos = 0 /\ ReaderState.bits_left = 0
    /\ (last.op \in BitReads /\ last.ok) =>
          /\ After.bits_left = (Before.bits_left - last.n) % 8
          /\ Before.bits_left = 0 => (After.bits_left > 0 <=> last.n % 8 # 0)
          /\ Before.bits_left > 0 =>
                (After.bits_left = 0 <=> last.n % 8 = Before.bits_left % 8)
    /\ last.op = "align_to_byte" =>
          /\ last.ok
          /\ After.bits_left = 0
          /\ After.bits = U64Zero
          /\ After.pos = Before.pos

\* a bit read that needed bytes of the source took a Fractional reader to
\* Aligned
C18_Witness ==
    /\ last.op \in BitReads
    /\ last.ok
    /\ Before.bits_left > 0
    /\ last.n > Before.bits_left
    /\ After.bits_left = 0

\* the primitives that read whole bytes or move the cursor
ByteOps == {"seek", "read_bytes", "read_bytes_full", "read_bytes_term", "read_fixed"}

\* the first k of the n bits of the value v of a bit read: the top k in
\* big-endian bit order, the low k in little-endian bit order
FirstBits(op, v, n, k) ==
    IF op = "read_bits_int_be" THEN Shr(v, n - k) ELSE And64(v, Mask(k))

\* C19: seek, read_bytes, read_bytes_full, read_bytes_term and the
\* fixed-width numeric reads never change bits or bits_left, whether they
\* succeed or fail and whether the reader is Aligned or Fractional; a seek
\* performed while Fractional keeps the residual bits, and the next bit read
\* returns them first: a read of n <= bits_left bits returns what it would
\* have returned before the seek, a longer one begins with the same
\* bits_left bits.
C19_BitsFrame ==
    last.op \in ByteOps =>
        /\ After.bits = Before.bits
        /\ After.bits_left = Before.bits_left
        /\ (last.op = "seek" /\ last.ok /\ Before.bits_left > 0) =>
              \A op \in BitReads, n \in 1..FewBits :
                  LET then == ReadBits(op, After, cur, n)
                      before == ReadBits(op, Before, last.precur, n)
                      k == Min(n, Before.bits_left)
                  IN  /\ n <= Before.bits_left =>
                            /\ then.ok
                            /\ then.val = before.val
                            /\ then.st.pos = last.n
                      /\ (then.ok /\ before.ok) =>
                            FirstBits(op, then.val, n, k) =
                                FirstBits(op, before.val, n, k)

\* a seek that moved the cursor of a reader that holds residual bits
C19_Witness ==
    /\ last.op = "seek"
    /\ last.ok
    /\ Before.bits_left > 0
    /\ Before.bits # U64Zero
    /\ last.n # Before.pos
    /\ last.n < size

\* every shift that a bit read of n <= 64 bits makes is by less than 64
ShiftsInRange ==
    (last.op \in BitReads /\ last.n <= 64) =>
        \A s \in (IF last.op = "read_bits_int_be" THEN be_shifts(Before, last.n)
                   ELSE le_shifts(Before, last.n)) : 0 <= s /\ s < 64

\* C20: read_bits_int_be(64) and read_bits_int_le(64), called with any
\* residual bits_left = k in 0..7 and enough source bytes, return the next 64
\* bits of the stream in that bit order: the k residual bits first, then
\* 64 - k bits of the following 8 bytes; and no step of either routine shifts
\* a 64-bit value by 64 or more, for any n in 0..64 and any reachable state.
C20_Bits64 ==
    /\ ShiftsInRange
    /\ (/\ last.op \in BitReads
        /\ last.n = 64
        /\ Before.pos + 8 <= size) =>
          LET k == Before.bits_left
          IN  /\ last.ok
              /\ \A i \in 0..63 :
                    Bit(last.val, i) =
                       IF last.op = "read_bits_int_be"
                       THEN IF i >= 64 - k THEN Bit(Before.bits, i - (64 - k))
                            ELSE StreamBitBE(8 * Before.pos + (63 - k - i))
                       ELSE IF i < k THEN Bit(Before.bits, i)
                            ELSE StreamBitLE(8 * Before.pos + (i - k))

\* C20 on the states where the code meets it: the residual bits are fewer
\* than 2^bits_left, as they are after calls that succeeded
C20_Bits64Clean ==
    (/\ last.op \in BitReads
     /\ last.n = 64
     /\ Before.pos + 8 <= size
     /\ Shr(Before.bits, Before.bits_left) = U64Zero) =>
        LET k == Before.bits_left
        IN  /\ last.ok
            /\ \A i \in 0..63 :
                  Bit(last.val, i) =
                     IF last.op = "read_bits_int_be"
                     THEN IF i >= 64 - k THEN Bit(Before.bits, i - (64 - k))
                          ELSE StreamBitBE(8 * Before.pos + (63 - k - i))
                     ELSE IF i < k THEN Bit(Before.bits, i)
                          ELSE StreamBitLE(8 * Before.pos + (i - k))

\* C21: process_rotate_left(seq, 0) returns seq unchanged for every byte
\* sequence seq, without any fault and without a shift of a byte by 8 or
\* more.
C21_RotateZero ==
    (last.op = "process_rotate_left" /\ last.n = 0) =>
        /\ last.ok
        /\ last.bytes = last.arg
        /\ \A s \in rotate_shifts(last.arg, 0) : s < 8

\* C21 where the code meets it: when the call returns, it returns seq
\* unchanged; and a rotation by 1..7 is the circular shift of each byte
C21_RotateReturned ==
    (last.op = "process_rotate_left" /\ last.ok) =>
        /\ Len(last.bytes) = Len(last.arg)
        /\ last.n = 0 => last.bytes = last.arg
        /\ \A i \in 1..Len(last.arg) :
              last.bytes[i] = ((last.arg[i] * Pow2[last.n + 1]) % 256)
                                 + (last.arg[i] \div Pow2[9 - last.n])

\* C22: when read_bits_int_be(n) or read_bits_int_le(n), n <= 64, fails with
\* Incomplete because the source has fewer bytes left than the request needs,
\* pos, bits and bits_left are the same as before the call, and so is the
\* answer of is_eof().
C22_FailedBitRead ==
    (last.op \in BitReads /\ last.n <= 64 /\ ~last.ok) =>
        /\ last.err.kind = "Incomplete"
        /\ After.pos = Before.pos
        /\ After.bits = Before.bits
        /\ After.bits_left = Before.bits_left
        /\ is_eof(After) = is_eof(Before)

\* C22 where the code meets it: a failed bit read leaves pos and bits as they
\* were, and a failed read_bits_int_le leaves bits_left too
C22_FailedBitReadKeeps ==
    (last.op \in BitReads /\ last.n <= 64 /\ ~last.ok) =>
        /\ last.err.kind = "Incomplete"
        /\ After.pos = Before.pos
        /\ After.bits = Before.bits
        /\ last.op = "read_bits_int_le" => After = Before

\* bit q of the source read as one stream of bits, q = 0 the first: the bits
\* of each byte from the most significant down for read_bits_int_be, from the
\* least significant up for read_bits_int_le
SrcBit(op, q) ==
    LET b == src[(q \div 8) + 1]
    IN  IF op = "read_bits_int_be" THEN ByteBits[b][(q % 8) + 1]
        ELSE ByteBits[b][8 - (q % 8)]

\* the u64 made of the n bits of the stream from bit q on, in the bit order of
\* op: the first bit is the most significant of the n for read_bits_int_be,
\* the least significant for read_bits_int_le
StreamValue(op, q, n) ==
    [j \in 1..64 |->
        LET i == 64 - j
        IN  IF i >= n THEN 0
            ELSE IF op = "read_bits_int_be" THEN SrcBit(op, q + n - 1 - i)
            ELSE SrcBit(op, q + i)]

\* the bit of the stream that the next bit read of st starts at
BitPos(st) == 8 * st.pos - st.bits_left

\* the residual bits of st are the bits of the stream from BitPos(st) to the
\* end of the byte before pos, in the bit order of op
InOrder(op, st) ==
    /\ 0 <= BitPos(st)
    /\ st.bits = StreamValue(op, BitPos(st), st.bits_left)

\* ceil(x / 8), and 0 for x <= 0
CeilDiv8(x) == IF x <= 0 THEN 0 ELSE ((x - 1) \div 8) + 1

\* C23: every successful read_bits_int_be(n) or read_bits_int_le(n) from a
\* state with cursor pos and bits_left = k advances pos by exactly
\* max(0, ceil((n - k) / 8)) bytes, so that 8 * pos - bits_left grows by
\* exactly n; and a successful bit read that starts Aligned (bits_left = 0) at
\* pos p returns the n bits of the source from bit 8 * p on, no bit skipped or
\* returned twice, and leaves as residual bits the bits of the source that
\* follow them.
C23_ResidualAccounting ==
    (last.op \in BitReads /\ last.ok) =>
        /\ After.pos = Before.pos + CeilDiv8(last.n - Before.bits_left)
        /\ BitPos(After) = BitPos(Before) + last.n
        /\ Before.bits_left = 0 =>
              /\ After.pos = Before.pos + CeilDiv8(last.n)
              /\ last.val = StreamValue(last.op, 8 * Before.pos, last.n)
              /\ InOrder(last.op, After)

\* C23 where the code meets it, the count of bytes and bits: a successful bit
\* read of n bits from bits_left = k advances pos by max(0, ceil((n - k) / 8))
\* and 8 * pos - bits_left by n
C23_PosAccounting ==
    (last.op \in BitReads /\ last.ok) =>
        /\ After.pos = Before.pos + CeilDiv8(last.n - Before.bits_left)
        /\ BitPos(After) = BitPos(Before) + last.n
        /\ 0 <= After.bits_left
        /\ After.bits_left <= 7

\* C23 where the code meets it, the bits: a successful bit read of n bits from
\* a state whose residual bits are the bits of the source before pos, in the
\* bit order of the read, returns the next n bits of the source and leaves
\* such a state
C23_BitsInOrder ==
    (last.op \in BitReads /\ last.ok /\ InOrder(last.op, Before)) =>
        /\ last.val = StreamValue(last.op, BitPos(Before), last.n)
        /\ InOrder(last.op, After)
        /\ BitPos(After) = BitPos(Before) + last.n

\* a bit read that takes its first bits from the residual bits and the others
\* from new bytes has returned
C23_Split ==
    /\ last.op \in BitReads
    /\ last.ok
    /\ Before.bits_left > 0
    /\ last.n > Before.bits_left
    /\ InOrder(last.op, Before)
    /\ After.bits_left > 0

\* the call in progress is read_into with no explicit root back-reference for
\* a node whose type is its own declared root type
SelfRooted ==
    /\ frame.pc # "idle"
    /\ ~frame.with_init
    /\ ~frame.root_arg.some
    /\ Root[frame.T] = frame.T

\* the back-reference cell is the root back-reference that read_into derived
\* for node k (or a clone of it)
RootOf(cell, k) ==
    /\ k # 0
    /\ cell.target = k
    /\ cell.type = nodes[k].type
    /\ Root[nodes[k].type] = nodes[k].type

\* C24: for a node whose type is its own declared root type, created by
\* read_into with no explicit root: the root back-reference handed to read
\* refers to that same node and upgrades to it during read, and for as long
\* as an owning handle to the node is alive; the back-reference holds no
\* owning handle, so that once every owning handle is dropped upgrade fails
\* with MissingParent and is_empty() is true.
C24_SelfRoot ==
    /\ (SelfRooted /\ frame.pc = "read") =>
          /\ frame.root = SharedType_new(frame.t)
          /\ nodes[frame.t].strong = 1
    /\ (SelfRooted /\ frame.pc = "done") =>
          /\ HasRead
          /\ frame.root = SharedType_new(frame.t)
          /\ frame.root_up = frame.t
    /\ \A c \in 1..MaxCells :
          RootOf(cells[c], cells[c].target) =>
              LET k == cells[c].target
              IN  IF nodes[k].strong > 0
                  THEN /\ get(cells[c]) = [ok |-> TRUE, err |-> NoErr, node |-> k]
                       /\ ~is_empty(cells[c])
                  ELSE /\ get(cells[c]) = [ok |-> FALSE, err |-> MissingParent,
                                           node |-> 0]
                       /\ is_empty(cells[c])
    /\ (ret.op = "get" /\ RootOf(ret.cell, ret.cell.target)) =>
          LET k == ret.cell.target
          IN  IF ret.pre[k].strong > 0
              THEN ret.ok /\ ret.node = k
              ELSE ~ret.ok /\ ret.err = MissingParent /\ nodes[k].strong = 0
    /\ (ret.op = "is_empty" /\ RootOf(ret.cell, ret.cell.target)) =>
          (ret.val <=> ret.pre[ret.cell.target].strong = 0)

\* the root back-reference that read_into derived for a node of a type that
\* is its own root is kept in a cell, no owning handle to the node is left,
\* and get() on the back-reference has returned MissingParent
C24_Witness ==
    /\ ret.op = "get"
    /\ RootOf(ret.cell, ret.cell.target)
    /\ nodes[ret.cell.target].type = "Top"
    /\ ~ret.ok
    /\ ret.err = MissingParent
    /\ is_empty(ret.cell)
    /\ \E c \in 1..MaxCells : cells[c] = ret.cell

====
